---- MODULE Spec2Model ----
(***************************************************************************)
(* In-memory reverse geocoding service (src/src/main.rs).                  *)
(*                                                                         *)
(* main reads a shapefile, assembles one geo::Polygon per outer ring,      *)
(* bulk-loads an rstar::RTree and then serves GET /query?lat=..&lon=..     *)
(* from actix-web workers that share the tree read-only.                   *)
(*                                                                         *)
(* Ring coordinates are integers (exactly representable as f64); the       *)
(* coordinates of a query are f64 values (IEEE 754 binary64): finite,      *)
(* infinite or NaN, with the rounding of f64 arithmetic.                   *)
(* Option<T> is a sequence of length at most one: <<>> is None, <<v>> is   *)
(* Some(v).                                                                *)
(***************************************************************************)
EXTENDS Integers, Sequences, FiniteSets, TLC

VARIABLES
    dataset,          \* the boundary file: [exists, items]
    pc,               \* position of main
    si,               \* index of the shape/record pair being iterated
    ri,               \* index of the ring being iterated in the current shape
    poly_list,        \* Vec<geo::Polygon> of the current shape
    current_polygon,  \* Option<geo::Polygon> of the current shape
    polygons,         \* Vec<IndexedPolygon> built by the loader
    rtree,            \* AppState.rtree, in the order the tree yields its leaves
    handlers          \* one in-flight query_polygon call per worker

vars == <<dataset, pc, si, ri, poly_list, current_polygon, polygons, rtree, handlers>>

(***************************************************************************)
(* Bounds of the model.                                                    *)
(***************************************************************************)
MaxRings == 4        \* rings of the one polygon shape of an assembler dataset
MaxShapes == 2       \* shape/record pairs of a library dataset
MaxConcShapes == 1   \* shape/record pairs of a dataset served concurrently
MaxQueryShapes == 1  \* shape/record pairs of a dataset queried with every string

Workers == {1, 2}

(***************************************************************************)
(* Small helpers.                                                          *)
(***************************************************************************)
Min2(a, b) == IF a <= b THEN a ELSE b
Max2(a, b) == IF a >= b THEN a ELSE b

BoundedSeq(S, n) == UNION {[1..k -> S] : k \in 0..n}

RemoveAt(s, i) == SubSeq(s, 1, i - 1) \o SubSeq(s, i + 1, Len(s))

\* Every reordering of the sequence s.
RECURSIVE Orderings(_)
Orderings(s) ==
    IF s = <<>> THEN {<<>>}
    ELSE UNION {{<<s[i]>> \o rest : rest \in Orderings(RemoveAt(s, i))} : i \in 1..Len(s)}

Abs(n) == IF n < 0 THEN 0 - n ELSE n

(***************************************************************************)
(* Natural numbers of any size, for the mantissas of f64 values and the    *)
(* digits of decimal strings: little-endian sequences of limbs below Base  *)
(* without a leading zero limb; <<>> is 0.                                 *)
(***************************************************************************)
LimbBits == 15
Base == 32768

BigTrim(a) ==
    LET nz == {i \in 1..Len(a) : a[i] # 0}
    IN IF nz = {} THEN <<>>
       ELSE SubSeq(a, 1, CHOOSE i \in nz : \A j \in nz : j <= i)

BigLimb(a, i) == IF i >= 1 /\ i <= Len(a) THEN a[i] ELSE 0

\* The number with the limbs f, each at most 2 * Base - 2: the carry into
\* limb i comes from the nearest lower limb that is not Base - 1.
BigCarry(f) ==
    LET cin(i) == \E j \in 1..(i - 1) :
                      f[j] >= Base /\ \A k \in (j + 1)..(i - 1) : f[k] = Base - 1
    IN BigTrim([i \in 1..(Len(f) + 1) |->
                   (BigLimb(f, i) + (IF cin(i) THEN 1 ELSE 0)) % Base])

\* The number (not negative) with the limbs f, each above -Base and below
\* Base: the borrow from limb i goes to the nearest lower limb that is not 0.
BigBorrow(f) ==
    LET bin(i) == \E j \in 1..(i - 1) :
                      f[j] < 0 /\ \A k \in (j + 1)..(i - 1) : f[k] = 0
    IN BigTrim([i \in 1..Len(f) |-> (f[i] - (IF bin(i) THEN 1 ELSE 0)) % Base])

BigAdd(a, b) == BigCarry([i \in 1..Max2(Len(a), Len(b)) |-> BigLimb(a, i) + BigLimb(b, i)])

\* a - b for a >= b
BigSub(a, b) == BigBorrow([i \in 1..Max2(Len(a), Len(b)) |-> BigLimb(a, i) - BigLimb(b, i)])

\* a * c for 0 <= c < Base
BigMulSmall(a, c) ==
    BigCarry([i \in 1..(Len(a) + 1) |->
                 ((BigLimb(a, i) * c) % Base) + ((BigLimb(a, i - 1) * c) \div Base)])

\* a * Base^n
BigShiftLimbs(a, n) == IF a = <<>> THEN <<>> ELSE [i \in 1..n |-> 0] \o a

\* a times the limbs lo..hi of b, each at its place
RECURSIVE BigMulRange(_, _, _, _)
BigMulRange(a, b, lo, hi) ==
    IF lo > hi THEN <<>>
    ELSE IF lo = hi THEN BigShiftLimbs(BigMulSmall(a, b[lo]), lo - 1)
    ELSE LET mid == (lo + hi) \div 2
         IN BigAdd(BigMulRange(a, b, lo, mid), BigMulRange(a, b, mid + 1, hi))

BigMul(a, b) ==
    IF Len(a) >= Len(b) THEN BigMulRange(a, b, 1, Len(b)) ELSE BigMulRange(b, a, 1, Len(a))

\* -1, 0 or 1 as a < b, a = b or a > b
BigCmp(a, b) ==
    IF Len(a) # Len(b) THEN (IF Len(a) < Len(b) THEN 0 - 1 ELSE 1)
    ELSE LET d == {i \in 1..Len(a) : a[i] # b[i]}
         IN IF d = {} THEN 0
            ELSE LET t == CHOOSE i \in d : \A j \in d : j <= i
                 IN IF a[t] < b[t] THEN 0 - 1 ELSE 1

\* Number of bits of a limb and of a number.
LimbBitLen(x) == IF x = 0 THEN 0 ELSE CHOOSE k \in 1..LimbBits : 2^(k - 1) <= x /\ x < 2^k
BigBitLen(a) == IF a = <<>> THEN 0 ELSE LimbBits * (Len(a) - 1) + LimbBitLen(a[Len(a)])

\* a * 2^k and floor(a / 2^k)
BigShiftLeft(a, k) ==
    LET r == k % LimbBits
    IN BigShiftLimbs(BigTrim([i \in 1..(Len(a) + 1) |->
                                 ((BigLimb(a, i) * 2^r) % Base)
                                     + (BigLimb(a, i - 1) \div 2^(LimbBits - r))]),
                     k \div LimbBits)

BigShiftRight(a, k) ==
    LET n == k \div LimbBits
        r == k % LimbBits
        t == IF n >= Len(a) THEN <<>> ELSE SubSeq(a, n + 1, Len(a))
    IN BigTrim([i \in 1..Len(t) |->
                   (t[i] \div 2^r) + (BigLimb(t, i + 1) % 2^r) * 2^(LimbBits - r)])

\* Bit j of a (bit 0 is the lowest), and whether any bit below bit j is set.
BigBit(a, j) ==
    IF j < 0 \/ j \div LimbBits + 1 > Len(a) THEN 0
    ELSE (a[j \div LimbBits + 1] \div 2^(j % LimbBits)) % 2

BigLowNonZero(a, j) ==
    /\ j > 0
    /\ \/ \E i \in 1..Min2(Len(a), j \div LimbBits) : a[i] # 0
       \/ BigLimb(a, j \div LimbBits + 1) % 2^(j % LimbBits) # 0

\* Number of zero bits below the lowest set bit of a limb and of a number,
\* neither of them 0.
LimbTrailingZeros(x) == CHOOSE u \in 0..(LimbBits - 1) : x % 2^(u + 1) # 0 /\ x % 2^u = 0
BigTrailingZeros(a) ==
    LET l == CHOOSE i \in 1..Len(a) : a[i] # 0 /\ \A j \in 1..(i - 1) : a[j] = 0
    IN LimbBits * (l - 1) + LimbTrailingZeros(a[l])

\* The number 0 <= n < 2^31
BigFromInt(n) ==
    IF n = 0 THEN <<>>
    ELSE IF n < Base THEN <<n>>
    ELSE BigTrim(<<n % Base, (n \div Base) % Base, n \div (Base * Base)>>)

\* floor(r / d) and the remainder, for r < d * 2^(bit + 1) and the bits q
\* of the quotient found so far: restoring division, one bit at a time
\* from the highest down.
RECURSIVE BigDivBits(_, _, _, _)
BigDivBits(r, d, bit, q) ==
    IF bit < 0 \/ Len(q) < 0 THEN [q |-> q, r |-> r]
    ELSE LET t == BigShiftLeft(d, bit)
         IN IF BigCmp(t, r) <= 0
            THEN BigDivBits(BigSub(r, t), d, bit - 1, BigAdd(q, BigShiftLeft(<<1>>, bit)))
            ELSE BigDivBits(r, d, bit - 1, q)

\* 10^e by squaring
RECURSIVE BigPow10(_)
BigPow10(e) ==
    IF e = 0 THEN <<1>>
    ELSE IF e % 2 = 1 THEN BigMulSmall(BigPow10(e - 1), 10)
    ELSE LET h == BigPow10(e \div 2) IN BigMul(h, h)

(***************************************************************************)
(* f64 values.  A finite value is s * m * 2^e with the sign s, the odd     *)
(* natural number m (or 0, with e = 0) and the exponent e; an infinity     *)
(* has its sign; NaN has none that matters.  Operations round to the       *)
(* nearest f64, ties to even, as IEEE 754 binary64 does: 53 significant    *)
(* bits, exponents down to 2^-1074 (subnormal) and below 2^1024.           *)
(***************************************************************************)
MantissaBits == 53
MinExponent == -1074
MaxExponent == 1024

Zero(s) == [k |-> "fin", s |-> s, m |-> <<>>, e |-> 0]
Infinity(s) == [k |-> "inf", s |-> s, m |-> <<>>, e |-> 0]
NaN == [k |-> "nan", s |-> 1, m |-> <<>>, e |-> 0]

\* The exact value s * m * 2^e with m made odd.
Canon(s, m, e) ==
    IF m = <<>> THEN Zero(s)
    ELSE IF Len(m) = 1
         THEN LET tz == LimbTrailingZeros(m[1])
              IN [k |-> "fin", s |-> s, m |-> <<m[1] \div 2^tz>>, e |-> e + tz]
    ELSE LET tz == BigTrailingZeros(m)
         IN [k |-> "fin", s |-> s, m |-> BigShiftRight(m, tz), e |-> e + tz]

\* The integer n as an f64 (|n| < 2^31 is exact).
Fin(n) ==
    IF n = 0 THEN Zero(1)
    ELSE IF n % 2 = 1 /\ n > 0 /\ n < Base THEN [k |-> "fin", s |-> 1, m |-> <<n>>, e |-> 0]
    ELSE Canon(IF n < 0 THEN 0 - 1 ELSE 1, BigFromInt(Abs(n)), 0)

\* A value that is a multiple of 2^-4 and below 2^9 in magnitude, and that
\* value times 2^4 as an integer.  Sums, differences and products of a few
\* such values are exact in f64 and fit the integers.
IsSmall(v) ==
    /\ v.k = "fin"
    /\ \/ v.m = <<>>
       \/ Len(v.m) = 1 /\ v.e >= 0 - 4 /\ v.e <= 9 /\ v.m[1] * 2^(v.e + 4) < 8192
Scaled(v) == IF v.m = <<>> THEN 0 ELSE v.s * v.m[1] * 2^(v.e + 4)

IsFinite(v) == v.k = "fin"
IsNaN(v) == v.k = "nan"
IsZero(v) == v.k = "fin" /\ v.m = <<>>

\* The f64 nearest to x.s * x.m * 2^x.e, ties to even; overflow gives
\* infinity, underflow a subnormal or a zero of the same sign.  q is the
\* exponent of the last bit an f64 of that magnitude keeps (x.e itself for
\* a number of three limbs at most, which has fewer than 53 bits).
RoundKept(s, q, kept, half, sticky) ==
    LET r == IF half /\ (sticky \/ BigBit(kept, 0) = 1) THEN BigAdd(kept, <<1>>) ELSE kept
    IN IF BigBitLen(r) + q > MaxExponent THEN Infinity(s) ELSE Canon(s, r, q)

RoundF(x) ==
    IF x.m = <<>> THEN Zero(x.s)
    ELSE LET q == IF Len(x.m) <= 3 /\ x.e >= MinExponent THEN x.e
                  ELSE Max2(x.e, Max2(x.e + BigBitLen(x.m) - MantissaBits, MinExponent))
         IN RoundKept(x.s, q, IF q = x.e THEN x.m ELSE BigShiftRight(x.m, q - x.e),
                      q > x.e /\ BigBit(x.m, q - x.e - 1) = 1,
                      BigLowNonZero(x.m, q - x.e - 1))

\* -v
NegF(v) == IF IsNaN(v) THEN v ELSE [v EXCEPT !.s = 0 - v.s]

\* |v|
AbsF(v) == IF IsNaN(v) THEN v ELSE [v EXCEPT !.s = 1]

\* The exact sum and product of two finite values that are not zero, as
\* s * m * 2^e (before rounding: m may be even and have more than 53 bits).
AddAligned(sa, ma, sb, mb, lo) ==
    IF sa = sb THEN [k |-> "fin", s |-> sa, m |-> BigAdd(ma, mb), e |-> lo]
    ELSE IF BigCmp(ma, mb) >= 0
         THEN [k |-> "fin", s |-> IF ma = mb THEN 1 ELSE sa, m |-> BigSub(ma, mb), e |-> lo]
    ELSE [k |-> "fin", s |-> sb, m |-> BigSub(mb, ma), e |-> lo]

AddExact(a, b) ==
    LET lo == Min2(a.e, b.e)
        n == a.s * a.m[1] * 2^(a.e - lo) + b.s * b.m[1] * 2^(b.e - lo)
    IN IF Len(a.m) = 1 /\ Len(b.m) = 1 /\ a.e - lo <= LimbBits /\ b.e - lo <= LimbBits
       THEN [k |-> "fin", s |-> IF n < 0 THEN 0 - 1 ELSE 1, m |-> BigFromInt(Abs(n)), e |-> lo]
       ELSE AddAligned(a.s, BigShiftLeft(a.m, a.e - lo), b.s, BigShiftLeft(b.m, b.e - lo), lo)

MulExact(a, b) ==
    [k |-> "fin", s |-> a.s * b.s, e |-> a.e + b.e,
     m |-> IF Len(a.m) = 1 /\ Len(b.m) = 1 THEN BigFromInt(a.m[1] * b.m[1])
           ELSE BigMul(a.m, b.m)]

\* a + b
AddF(a, b) ==
    IF IsNaN(a) \/ IsNaN(b) THEN NaN
    ELSE IF ~IsFinite(a) THEN (IF ~IsFinite(b) /\ b.s # a.s THEN NaN ELSE a)
    ELSE IF ~IsFinite(b) THEN b
    ELSE IF IsZero(a) /\ IsZero(b) THEN Zero(IF a.s = b.s THEN a.s ELSE 1)
    ELSE IF IsZero(a) THEN b
    ELSE IF IsZero(b) THEN a
    ELSE RoundF(AddExact(a, b))

\* a - b
SubF(a, b) == AddF(a, NegF(b))

\* a * b
MulF(a, b) ==
    IF IsNaN(a) \/ IsNaN(b) THEN NaN
    ELSE IF IsFinite(a) /\ IsFinite(b)
         THEN IF IsZero(a) \/ IsZero(b) THEN Zero(a.s * b.s)
              ELSE RoundF(MulExact(a, b))
    ELSE IF IsZero(a) \/ IsZero(b) THEN NaN
    ELSE Infinity(a.s * b.s)

\* -1, 0 or 1 as v < 0.0, neither, or v > 0.0 (zeros and NaN are neither).
SignF(v) == IF IsNaN(v) \/ IsZero(v) THEN 0 ELSE v.s

\* -1, 0 or 1 as a < b, a = b or a > b, for finite a and b.
CmpFin(a, b) ==
    IF SignF(a) # SignF(b) THEN (IF SignF(a) < SignF(b) THEN 0 - 1 ELSE 1)
    ELSE IF IsZero(a) THEN 0
    ELSE LET ta == a.e + BigBitLen(a.m)
             tb == b.e + BigBitLen(b.m)
             lo == Min2(a.e, b.e)
         IN IF ta # tb THEN (IF ta < tb THEN 0 - a.s ELSE a.s)
            ELSE a.s * BigCmp(BigShiftLeft(a.m, a.e - lo), BigShiftLeft(b.m, b.e - lo))

\* Position of v among -inf, the finite values and +inf.
RankF(v) == IF IsFinite(v) THEN 0 ELSE v.s

\* a == b, a < b, a <= b (small values by their multiples of 2^-4)
EqF(a, b) ==
    IF IsSmall(a) /\ IsSmall(b) THEN Scaled(a) = Scaled(b)
    ELSE /\ ~IsNaN(a)
         /\ ~IsNaN(b)
         /\ a.k = b.k
         /\ IF IsFinite(a) THEN CmpFin(a, b) = 0 ELSE a.s = b.s
LtF(a, b) ==
    IF IsSmall(a) /\ IsSmall(b) THEN Scaled(a) < Scaled(b)
    ELSE /\ ~IsNaN(a)
         /\ ~IsNaN(b)
         /\ \/ RankF(a) < RankF(b)
            \/ IsFinite(a) /\ IsFinite(b) /\ CmpFin(a, b) < 0
LeF(a, b) ==
    IF IsSmall(a) /\ IsSmall(b) THEN Scaled(a) <= Scaled(b)
    ELSE /\ ~IsNaN(a)
         /\ ~IsNaN(b)
         /\ \/ RankF(a) < RankF(b)
            \/ RankF(a) = RankF(b) /\ (IsFinite(a) => CmpFin(a, b) <= 0)

(***************************************************************************)
(* serde_json::Value, as far as the program builds it: an object whose     *)
(* members are strings or null, or null itself.                            *)
(***************************************************************************)
JsonLeafNull == [t |-> "Null", s |-> ""]
JsonString(s) == [t |-> "String", s |-> s]
EmptyMap == [k \in {} |-> JsonLeafNull]
ValueNull == [t |-> "Null", m |-> EmptyMap]
ValueObject(m) == [t |-> "Object", m |-> m]
MapInsert(m, k, v) == [y \in (DOMAIN m) \cup {k} |-> IF y = k THEN v ELSE m[y]]

\* record_to_json.rs: only Character(Some(s)) becomes a string.
field_value_to_json(value) ==
    IF value.kind = "Character"
    THEN IF value.val # <<>> THEN JsonString(value.val[1]) ELSE JsonLeafNull
    ELSE JsonLeafNull

RECURSIVE record_fold(_, _, _)
record_fold(record, k, map) ==
    IF k > Len(record) THEN map
    ELSE record_fold(record, k + 1,
                     MapInsert(map, record[k].name, field_value_to_json(record[k].value)))

record_to_json(record) == ValueObject(record_fold(record, 1, EmptyMap))

(***************************************************************************)
(* geo: closing of rings, bounding rectangle, point in polygon.            *)
(***************************************************************************)
\* geo::Polygon::new closes every ring: a non-empty ring whose first and
\* last coordinates differ gets its first coordinate appended.
CloseRing(pts) ==
    IF pts # <<>> /\ pts[1] # pts[Len(pts)] THEN Append(pts, pts[1]) ELSE pts

RECURSIVE CloseAll(_)
CloseAll(rs) == IF rs = <<>> THEN <<>> ELSE <<CloseRing(Head(rs))>> \o CloseAll(Tail(rs))

PolygonNew(exterior, interiors) ==
    [exterior |-> CloseRing(exterior), interiors |-> CloseAll(interiors)]

\* The least and the greatest coordinate on one axis from position k on.
RECURSIVE FoldMin(_, _, _, _)
FoldMin(pts, axis, k, acc) ==
    IF k > Len(pts) THEN acc ELSE FoldMin(pts, axis, k + 1, Min2(acc, pts[k][axis]))

RECURSIVE FoldMax(_, _, _, _)
FoldMax(pts, axis, k, acc) ==
    IF k > Len(pts) THEN acc ELSE FoldMax(pts, axis, k + 1, Max2(acc, pts[k][axis]))

\* geo's bounding_rect of a polygon: min/max over the exterior ring only;
\* None when the exterior has no coordinate.
bounding_rect(polygon) ==
    LET e == polygon.exterior
    IN IF e = <<>> THEN <<>>
       ELSE << [min |-> <<FoldMin(e, 1, 2, e[1][1]), FoldMin(e, 2, 2, e[1][2])>>,
                max |-> <<FoldMax(e, 1, 2, e[1][1]), FoldMax(e, 2, 2, e[1][2])>>] >>

\* robust's CCWERRBOUND_A = (3 + 16 * EPSILON) * EPSILON with EPSILON = 2^-53:
\* (3 * 2^49 + 1) * 2^-102.
CcwErrBoundA == [k |-> "fin", s |-> 1, m |-> <<1, 0, 0, 48>>, e |-> 0 - 102]

\* The exact sum and product of two finite values, without rounding.
SumOf(a, b) == IF IsZero(a) THEN b ELSE IF IsZero(b) THEN a ELSE AddExact(a, b)
ProductOf(a, b) == IF IsZero(a) \/ IsZero(b) THEN Zero(1) ELSE MulExact(a, b)

\* The sign of (pa.x - pt.x) * (pb.y - pt.y) - (pa.y - pt.y) * (pb.x - pt.x)
\* as a real number, for finite coordinates: what robust's adaptive stage
\* (orient2dadapt) determines with its exact expansions.
ExactOrientation(pa, pb, pt) ==
    LET acx == SumOf(pa[1], NegF(pt[1]))
        bcx == SumOf(pb[1], NegF(pt[1]))
        acy == SumOf(pa[2], NegF(pt[2]))
        bcy == SumOf(pb[2], NegF(pt[2]))
    IN SignF(SumOf(ProductOf(acx, bcy), NegF(ProductOf(acy, bcx))))

\* robust::orient2d(pa, pb, pt), pt its third argument, as geo's
\* RobustKernel reads it: 1 when the result is positive
\* (counter-clockwise), -1 when it is negative
\* (clockwise), 0 otherwise (collinear; also when the result is NaN).
\* The first stage computes the determinant in f64 and returns it when its
\* magnitude is at least the error bound CCWERRBOUND_A * |detleft +
\* detright|; otherwise the adaptive stage (orient2dadapt) decides.  An
\* error bound that is NaN (products that are infinite with unlike signs,
\* or NaN) fails both comparisons, and the adaptive stage, whose
\* expansions are NaN then, returns NaN.
Orient2dBounded(det, errbound, exact) ==
    IF LeF(errbound, det) \/ LeF(errbound, NegF(det)) THEN SignF(det) ELSE exact

Orient2dOf(detleft, detright, pa, pb, pt) ==
    Orient2dBounded(SubF(detleft, detright),
                    MulF(CcwErrBoundA, AbsF(AddF(detleft, detright))),
                    IF IsFinite(detleft) /\ IsFinite(detright)
                    THEN ExactOrientation(pa, pb, pt) ELSE 0)

RobustOrient2d(pa, pb, pt) ==
    Orient2dOf(MulF(SubF(pa[1], pt[1]), SubF(pb[2], pt[2])),
               MulF(SubF(pa[2], pt[2]), SubF(pb[1], pt[1])), pa, pb, pt)

\* The orientation of the ring coordinates p, q and the query coordinate r.
\* When every coordinate is small the differences, the products and the
\* determinant are exact in f64, so that robust::orient2d gives the sign
\* of the integer determinant in either stage.
Orient2d(p, q, r) ==
    IF /\ \A i \in 1..2 : Abs(p[i]) < 512 /\ Abs(q[i]) < 512
       /\ IsSmall(r[1])
       /\ IsSmall(r[2])
    THEN LET det == (16 * p[1] - Scaled(r[1])) * (16 * q[2] - Scaled(r[2]))
                        - (16 * p[2] - Scaled(r[2])) * (16 * q[1] - Scaled(r[1]))
         IN IF det > 0 THEN 1 ELSE IF det < 0 THEN 0 - 1 ELSE 0
    ELSE RobustOrient2d(<<Fin(p[1]), Fin(p[2])>>, <<Fin(q[1]), Fin(q[2])>>, r)

\* geo's value_in_between(value, bound_1, bound_2).
ValueInBetween(v, b1, b2) ==
    IF b1 < b2 THEN LeF(Fin(b1), v) /\ LeF(v, Fin(b2))
    ELSE LeF(Fin(b2), v) /\ LeF(v, Fin(b1))

\* What an edge (s, e) that reaches the height of c contributes, o being
\* its orientation with c: an upward edge (one that starts at or below c)
\* counts when c is to its left and it does not end at the height of c, a
\* downward edge when c is to its right; c collinear with the edge and
\* between its ends is on the boundary.
EdgeCrossing(o, upward, s, e, c) ==
    IF upward /\ o = 1 /\ ~EqF(Fin(e[2]), c[2]) THEN [b |-> FALSE, w |-> 1]
    ELSE IF ~upward /\ o = -1 THEN [b |-> FALSE, w |-> -1]
    ELSE IF o = 0 /\ ValueInBetween(c[1], s[1], e[1]) THEN [b |-> TRUE, w |-> 0]
    ELSE [b |-> FALSE, w |-> 0]

\* What one edge (s, e) of a ring contributes for coordinate c:
\* "b" on the boundary, otherwise a winding number increment.  The
\* orientation is asked for only when start.y <= c.y and end.y >= c.y, or
\* start.y > c.y (or unordered) and end.y <= c.y.
EdgeEffect(s, e, c) ==
    IF (IF LeF(Fin(s[2]), c[2]) THEN LeF(c[2], Fin(e[2])) ELSE LeF(Fin(e[2]), c[2]))
    THEN EdgeCrossing(Orient2d(s, e, c), LeF(Fin(s[2]), c[2]), s, e, c)
    ELSE [b |-> FALSE, w |-> 0]

\* The winding number so far and the effect of the next edge.
Accumulate(acc, eff) == [b |-> eff.b, w |-> acc.w + eff.w]

\* The edges from the k-th on, in order; an edge with c on it ends the
\* walk.
RECURSIVE WindingFrom(_, _, _, _)
WindingFrom(ls, c, k, acc) ==
    IF acc.b THEN "OnBoundary"
    ELSE IF k >= Len(ls) THEN (IF acc.w = 0 THEN "Outside" ELSE "Inside")
    ELSE WindingFrom(ls, c, k + 1, Accumulate(acc, EdgeEffect(ls[k], ls[k + 1], c)))

\* Position of a coordinate relative to a closed ring (a LineString).
CoordPosRing(c, ls) ==
    IF ls = <<>> THEN "Outside"
    ELSE IF Len(ls) = 1
         THEN (IF EqF(c[1], Fin(ls[1][1])) /\ EqF(c[2], Fin(ls[1][2]))
               THEN "OnBoundary" ELSE "Outside")
    ELSE WindingFrom(ls, c, 1, [b |-> FALSE, w |-> 0])

RECURSIVE OutsideHolesFrom(_, _, _)
OutsideHolesFrom(holes, c, k) ==
    IF k > Len(holes) THEN TRUE
    ELSE IF CoordPosRing(c, holes[k]) = "Outside" THEN OutsideHolesFrom(holes, c, k + 1)
    ELSE FALSE

\* Variant that forgets the interior rings.
ContainsIgnoringHoles(polygon, point) ==
    CoordPosRing(point, polygon.exterior) = "Inside"

\* geo::Contains<Point> for Polygon: strictly inside the exterior and
\* outside every hole (a point on any boundary is not contained).
Contains(polygon, point) ==
    /\ CoordPosRing(point, polygon.exterior) = "Inside"
    /\ OutsideHolesFrom(polygon.interiors, point, 1)

(***************************************************************************)
(* IndexedPolygon as an rstar object (main.rs 32-47).                      *)
(***************************************************************************)
IndexedPolygon(polygon, properties) == [polygon |-> polygon, properties |-> properties]

\* envelope() unwraps the bounding rectangle: it panics when there is none.
envelope_panics(ip) == bounding_rect(ip.polygon) = <<>>

\* Variant that spans the x extent on both axes.
envelope_x_only(ip) ==
    LET rect == bounding_rect(ip.polygon)[1]
    IN [lower |-> <<rect.min[1], rect.min[1]>>, upper |-> <<rect.max[1], rect.max[1]>>]

\* AABB::from_corners([min.x, min.y], [max.x, max.y]).
envelope(ip) ==
    LET rect == bounding_rect(ip.polygon)[1]
    IN [lower |-> <<Min2(rect.min[1], rect.max[1]), Min2(rect.min[2], rect.max[2])>>,
        upper |-> <<Max2(rect.min[1], rect.max[1]), Max2(rect.min[2], rect.max[2])>>]

\* rstar's max_inline(a, b) and min_inline(a, b).
MaxInline(a, b) == IF LtF(b, a) THEN a ELSE b
MinInline(a, b) == IF LtF(a, b) THEN a ELSE b

\* AABB::contains_point: lower <= point <= upper on both axes.
AabbContainsPoint(env, point) ==
    \A i \in 1..2 : LeF(Fin(env.lower[i]), point[i]) /\ LeF(point[i], Fin(env.upper[i]))

\* AABB::distance_2: zero inside and on the border of the envelope,
\* otherwise the squared length of the way from the point to the point
\* clamped into the envelope, folded as cur * cur + acc from 0.0 in f64.
Length2(diff) == AddF(MulF(diff[2], diff[2]), AddF(MulF(diff[1], diff[1]), Zero(1)))

AabbDistance2(env, point) ==
    IF AabbContainsPoint(env, point) THEN Zero(1)
    ELSE Length2([i \in 1..2 |->
                     SubF(MinInline(Fin(env.upper[i]), MaxInline(Fin(env.lower[i]), point[i])),
                          point[i])])

\* IndexedPolygon::distance_2 delegates to the envelope.
distance_2(ip, point) == AabbDistance2(envelope(ip), point)

\* PointDistance::contains_point, which locate_all_at_point asks of each
\* leaf: distance_2(point) <= 0.
contains_point(ip, point) == LeF(distance_2(ip, point), Zero(1))

\* The envelope of the root node: the envelopes of the leaves merged (a
\* tree of at most six leaves has them all under its root).
RECURSIVE MergedEnvelope(_, _, _)
MergedEnvelope(tree, k, acc) ==
    IF k > Len(tree) THEN acc
    ELSE LET env == envelope(tree[k])
         IN MergedEnvelope(tree, k + 1,
                [lower |-> <<Min2(acc.lower[1], env.lower[1]), Min2(acc.lower[2], env.lower[2])>>,
                 upper |-> <<Max2(acc.upper[1], env.upper[1]), Max2(acc.upper[2], env.upper[2])>>])

\* locate_all_at_point unpacks the root only when the root's envelope
\* contains the point (of an empty tree it never does).
RootContainsPoint(tree, point) ==
    /\ tree # <<>>
    /\ AabbContainsPoint(MergedEnvelope(tree, 2, envelope(tree[1])), point)

\* Index of the next leaf after position pos that contains the point, 0
\* when there is none.
RECURSIVE NextLeaf(_, _, _)
NextLeaf(tree, point, pos) ==
    IF pos >= Len(tree) THEN 0
    ELSE IF contains_point(tree[pos + 1], point) THEN pos + 1
    ELSE NextLeaf(tree, point, pos + 1)

\* Index of the next leaf after position pos that locate_all_at_point
\* yields for the point, 0 when the iterator is exhausted.
NextCandidate(tree, point, pos) ==
    IF RootContainsPoint(tree, point) THEN NextLeaf(tree, point, pos) ELSE 0

\* Every leaf locate_all_at_point yields for the point.
RECURSIVE LocateAllFrom(_, _, _)
LocateAllFrom(tree, point, pos) ==
    LET j == NextLeaf(tree, point, pos)
    IN IF j = 0 THEN {} ELSE {j} \cup LocateAllFrom(tree, point, j)

locate_all_at_point(tree, point) ==
    IF RootContainsPoint(tree, point) THEN LocateAllFrom(tree, point, 0) ELSE {}

(***************************************************************************)
(* The inputs: rings, attribute records, shapes and boundary files.        *)
(***************************************************************************)
Outer(points) == [tag |-> "Outer", points |-> points]
Inner(points) == [tag |-> "Inner", points |-> points]

RingA == << <<0, 0>>, <<0, 5>>, <<5, 5>>, <<5, 0>>, <<0, 0>> >>    \* square, clockwise
RingH1 == << <<2, 2>>, <<4, 2>>, <<4, 4>>, <<2, 4>>, <<2, 2>> >>   \* hole of A
RingH2 == << <<1, 1>>, <<2, 1>>, <<2, 2>>, <<1, 2>>, <<1, 1>> >>   \* hole of A
RingB == << <<0, 0>>, <<0, 6>>, <<3, 0>> >>                        \* triangle, left open
RingD == << <<8, 8>>, <<8, 9>>, <<8, 10>>, <<10, 10>>, <<10, 8>>, <<8, 8>> >>
RingE == << >>                                                     \* no coordinate

CharacterSome(s) == [kind |-> "Character", val |-> <<s>>]
CharacterNone == [kind |-> "Character", val |-> <<>>]
Numeric == [kind |-> "Numeric", val |-> <<"5">>]
Field(name, value) == [name |-> name, value |-> value]

RecordA == << Field("name", CharacterSome("A")) >>
RecordB == << Field("name", CharacterSome("B")), Field("pop", Numeric),
              Field("note", CharacterNone) >>

PolygonShape(rings, record) == [kind |-> "Polygon", rings |-> rings, record |-> record]
PointShape == [kind |-> "Point", rings |-> <<>>, record |-> RecordA]
ReadError == [kind |-> "Error", rings |-> <<>>, record |-> <<>>]

ShapeA == PolygonShape(<<Outer(RingA), Inner(RingH1)>>, RecordA)
ShapeB == PolygonShape(<<Inner(RingH2), Outer(RingB), Outer(RingD)>>, RecordB)
ShapeEmpty == PolygonShape(<<Outer(RingE)>>, RecordA)

ShapeLib == {ShapeA, ShapeB, PointShape, ShapeEmpty, ReadError}
AssemblerRings == {Outer(RingA), Outer(RingB), Inner(RingH1), Inner(RingH2)}

File(items) == [exists |-> TRUE, items |-> items]
MissingFile == [exists |-> FALSE, items |-> <<>>]

\* One polygon shape with any sequence of rings.
AssemblerDatasets ==
    {File(<<PolygonShape(rings, RecordA)>>) : rings \in BoundedSeq(AssemblerRings, MaxRings)}

LibraryDatasets(n) == {File(items) : items \in BoundedSeq(ShapeLib, n)} \cup {MissingFile}

(***************************************************************************)
(* main and load_polygons_from_shapefile (main.rs 78-179).                 *)
(***************************************************************************)
IdleHandler == [stage |-> "idle", lat |-> <<>>, lon |-> <<>>, point |-> <<Zero(1), Zero(1)>>,
                pos |-> 0, status |-> 0, body |-> ValueNull]

InitWith(datasets) ==
    /\ dataset \in datasets
    /\ pc = "open"
    /\ si = 1
    /\ ri = 1
    /\ poly_list = <<>>
    /\ current_polygon = <<>>
    /\ polygons = <<>>
    /\ rtree = <<>>
    /\ handlers = [w \in Workers |-> IdleHandler]

shape == dataset.items[si]
ring == shape.rings[ri]

\* shapefile::Reader::from_path fails: panic.
OpenFail ==
    /\ pc = "open"
    /\ ~dataset.exists
    /\ pc' = "panicked"
    /\ UNCHANGED <<dataset, si, ri, poly_list, current_polygon, polygons, rtree, handlers>>

OpenOk ==
    /\ pc = "open"
    /\ dataset.exists
    /\ pc' = "iter"
    /\ UNCHANGED <<dataset, si, ri, poly_list, current_polygon, polygons, rtree, handlers>>

\* result.expect(..) on a pair that cannot be read: panic.
RecordError ==
    /\ pc = "iter"
    /\ si <= Len(dataset.items)
    /\ shape.kind = "Error"
    /\ pc' = "panicked"
    /\ UNCHANGED <<dataset, si, ri, poly_list, current_polygon, polygons, rtree, handlers>>

\* Variant that ends the iteration at an unsupported shape.
SkipShapeStopping ==
    /\ pc = "iter"
    /\ si <= Len(dataset.items)
    /\ shape.kind \notin {"Polygon", "Error"}
    /\ pc' = "loaded"
    /\ UNCHANGED <<dataset, si, ri, poly_list, current_polygon, polygons, rtree, handlers>>

\* other_shape => println!: nothing is pushed.
SkipShape ==
    /\ pc = "iter"
    /\ si <= Len(dataset.items)
    /\ shape.kind \notin {"Polygon", "Error"}
    /\ si' = si + 1
    /\ UNCHANGED <<dataset, pc, ri, poly_list, current_polygon, polygons, rtree, handlers>>

\* Shape::Polygon(polygon_shape): fresh poly_list and current_polygon.
StartPolygonShape ==
    /\ pc = "iter"
    /\ si <= Len(dataset.items)
    /\ shape.kind = "Polygon"
    /\ pc' = "rings"
    /\ ri' = 1
    /\ poly_list' = <<>>
    /\ current_polygon' = <<>>
    /\ UNCHANGED <<dataset, si, polygons, rtree, handlers>>

\* Variant that starts the new polygon without keeping the one in progress.
OuterRingDropping ==
    /\ pc = "rings"
    /\ ri <= Len(shape.rings)
    /\ ring.tag = "Outer"
    /\ poly_list' = poly_list
    /\ current_polygon' = <<PolygonNew(ring.points, <<>>)>>
    /\ ri' = ri + 1
    /\ UNCHANGED <<dataset, pc, si, polygons, rtree, handlers>>

\* PolygonRing::Outer: push the polygon in progress, start a new one.
OuterRing ==
    /\ pc = "rings"
    /\ ri <= Len(shape.rings)
    /\ ring.tag = "Outer"
    /\ poly_list' = poly_list \o current_polygon
    /\ current_polygon' = <<PolygonNew(ring.points, <<>>)>>
    /\ ri' = ri + 1
    /\ UNCHANGED <<dataset, pc, si, polygons, rtree, handlers>>

\* PolygonRing::Inner with a polygon in progress: rebuilt with one more hole.
InnerRingAttach ==
    /\ pc = "rings"
    /\ ri <= Len(shape.rings)
    /\ ring.tag = "Inner"
    /\ current_polygon # <<>>
    /\ LET poly == current_polygon[1]
           interiors == Append(poly.interiors, ring.points)
       IN current_polygon' = <<PolygonNew(poly.exterior, interiors)>>
    /\ ri' = ri + 1
    /\ UNCHANGED <<dataset, pc, si, poly_list, polygons, rtree, handlers>>

\* Variant that lets an orphan inner ring start a polygon of its own.
InnerRingOrphanKept ==
    /\ pc = "rings"
    /\ ri <= Len(shape.rings)
    /\ ring.tag = "Inner"
    /\ current_polygon = <<>>
    /\ current_polygon' = <<PolygonNew(ring.points, <<>>)>>
    /\ ri' = ri + 1
    /\ UNCHANGED <<dataset, pc, si, poly_list, polygons, rtree, handlers>>

\* PolygonRing::Inner with no polygon in progress: warning only.
InnerRingOrphan ==
    /\ pc = "rings"
    /\ ri <= Len(shape.rings)
    /\ ring.tag = "Inner"
    /\ current_polygon = <<>>
    /\ ri' = ri + 1
    /\ UNCHANGED <<dataset, pc, si, poly_list, current_polygon, polygons, rtree, handlers>>

RECURSIVE WrapAll(_, _)
WrapAll(polys, properties) ==
    IF polys = <<>> THEN <<>>
    ELSE <<IndexedPolygon(Head(polys), properties)>> \o WrapAll(Tail(polys), properties)

\* Variant that wraps the polygons with the first shape's attributes.
FinishShapeFirstRecord ==
    /\ pc = "rings"
    /\ ri > Len(shape.rings)
    /\ LET list == poly_list \o current_polygon
           properties == record_to_json(dataset.items[1].record)
       IN polygons' = polygons \o WrapAll(list, properties)
    /\ poly_list' = <<>>
    /\ current_polygon' = <<>>
    /\ si' = si + 1
    /\ pc' = "iter"
    /\ UNCHANGED <<dataset, ri, rtree, handlers>>

\* After the ring loop: push the polygon in progress, convert the record,
\* push one IndexedPolygon per polygon of the shape.
FinishShape ==
    /\ pc = "rings"
    /\ ri > Len(shape.rings)
    /\ LET list == poly_list \o current_polygon
           properties == record_to_json(shape.record)
       IN polygons' = polygons \o WrapAll(list, properties)
    /\ poly_list' = <<>>
    /\ current_polygon' = <<>>
    /\ si' = si + 1
    /\ pc' = "iter"
    /\ UNCHANGED <<dataset, ri, rtree, handlers>>

\* The iterator is exhausted: load_polygons_from_shapefile returns polygons.
ReturnPolygons ==
    /\ pc = "iter"
    /\ si > Len(dataset.items)
    /\ pc' = "loaded"
    /\ UNCHANGED <<dataset, si, ri, poly_list, current_polygon, polygons, rtree, handlers>>

NextLoad ==
    \/ OpenFail
    \/ OpenOk
    \/ RecordError
    \/ SkipShape
    \/ StartPolygonShape
    \/ OuterRing
    \/ InnerRingAttach
    \/ InnerRingOrphan
    \/ FinishShape
    \/ ReturnPolygons

InitLoad == InitWith(AssemblerDatasets \cup LibraryDatasets(MaxShapes))

\* load_polygons_from_shapefile alone, over every boundary file of the bounds.
SpecLoad == InitLoad /\ [][NextLoad]_vars

(***************************************************************************)
(* main after the load: bulk_load, bind, run (main.rs 164-178).            *)
(***************************************************************************)
\* Variant that builds the tree without asking for the envelopes.
BulkLoadUnchecked ==
    /\ pc = "loaded"
    /\ \E order \in Orderings(polygons) : rtree' = order
    /\ pc' = "bind"
    /\ UNCHANGED <<dataset, si, ri, poly_list, current_polygon, polygons, handlers>>

\* RTree::bulk_load asks every element for its envelope.  The order in
\* which the tree later yields its leaves is not specified by rstar: any
\* order of the elements is possible, and it is fixed once built.
BulkLoadOk ==
    /\ pc = "loaded"
    /\ \A i \in 1..Len(polygons) : ~envelope_panics(polygons[i])
    /\ \E order \in Orderings(polygons) : rtree' = order
    /\ pc' = "bind"
    /\ UNCHANGED <<dataset, si, ri, poly_list, current_polygon, polygons, handlers>>

BulkLoadPanic ==
    /\ pc = "loaded"
    /\ \E i \in 1..Len(polygons) : envelope_panics(polygons[i])
    /\ pc' = "panicked"
    /\ UNCHANGED <<dataset, si, ri, poly_list, current_polygon, polygons, rtree, handlers>>

\* .bind("127.0.0.1:8080")? succeeds and the server runs.
BindOk ==
    /\ pc = "bind"
    /\ pc' = "serve"
    /\ UNCHANGED <<dataset, si, ri, poly_list, current_polygon, polygons, rtree, handlers>>

\* .bind(..)? fails: main returns the error.
BindFail ==
    /\ pc = "bind"
    /\ pc' = "exited"
    /\ UNCHANGED <<dataset, si, ri, poly_list, current_polygon, polygons, rtree, handlers>>

(***************************************************************************)
(* query_polygon (main.rs 55-75).                                          *)
(***************************************************************************)
Digits == {"0", "1", "2", "3", "4", "5", "6", "7", "8", "9"}
DigitValue(ch) ==
    CASE ch = "0" -> 0 [] ch = "1" -> 1 [] ch = "2" -> 2 [] ch = "3" -> 3 [] ch = "4" -> 4
      [] ch = "5" -> 5 [] ch = "6" -> 6 [] ch = "7" -> 7 [] ch = "8" -> 8 [] ch = "9" -> 9

\* The number the digits lo..hi of a string denote.
RECURSIVE DecimalValue(_, _, _)
DecimalValue(chars, lo, hi) ==
    IF lo > hi THEN <<>>
    ELSE IF lo = hi THEN BigFromInt(DigitValue(chars[lo]))
    ELSE LET mid == (lo + hi) \div 2
         IN BigAdd(BigMul(DecimalValue(chars, lo, mid), BigPow10(hi - mid)),
                   DecimalValue(chars, mid + 1, hi))

\* ASCII lower case of the letters the special values are spelled with.
Lower(ch) ==
    CASE ch = "I" -> "i" [] ch = "N" -> "n" [] ch = "F" -> "f" [] ch = "T" -> "t"
      [] ch = "Y" -> "y" [] ch = "A" -> "a" [] ch = "E" -> "e" [] OTHER -> ch

LowerAll(chars) == [i \in 1..Len(chars) |-> Lower(chars[i])]

\* Number of characters of a set the string starts with.
LeadingIn(chars, set) ==
    LET other == {i \in 1..Len(chars) : chars[i] \notin set}
    IN IF other = {} THEN Len(chars)
       ELSE (CHOOSE i \in other : \A j \in other : i <= j) - 1

LeadingDigits(chars) == LeadingIn(chars, Digits)
LeadingZeros(chars) == LeadingIn(chars, {"0"})

Drop(chars, n) == SubSeq(chars, n + 1, Len(chars))

\* The exponent a string of digits denotes, as str::parse::<f64> reads it:
\* digit by digit, a digit being taken in only while the value so far is
\* below 0x10000 (later digits are read and dropped), so that 100001 is
\* 100001 and 655360 is 65536.
ExponentCap == 65536
RECURSIVE ExponentValue(_)
ExponentValue(chars) ==
    IF chars = <<>> THEN 0
    ELSE LET sofar == ExponentValue(SubSeq(chars, 1, Len(chars) - 1))
         IN IF sofar < ExponentCap THEN 10 * sofar + DigitValue(chars[Len(chars)])
            ELSE sofar

\* What follows the digits of a decimal: nothing, or e / E, an optional
\* sign and at least one digit up to the end of the string.
ParseExponent(rest) ==
    IF rest = <<>> THEN <<0>>
    ELSE IF Lower(Head(rest)) # "e" THEN <<>>
    ELSE LET t == Tail(rest)
             signed == t # <<>> /\ Head(t) \in {"-", "+"}
             ds == IF signed THEN Tail(t) ELSE t
         IN IF ds # <<>> /\ LeadingDigits(ds) = Len(ds)
            THEN <<(IF signed /\ Head(t) = "-" THEN 0 - 1 ELSE 1) * ExponentValue(ds)>>
            ELSE <<>>

\* The f64 nearest to s * n / d for natural numbers n, d # 0: 57 or 58
\* bits of the quotient and whether anything is left, then rounded.
DivNearest(s, n, d) ==
    LET sh == BigBitLen(n) - BigBitLen(d) - 57
        qr == BigDivBits(IF sh < 0 THEN BigShiftLeft(n, 0 - sh) ELSE n,
                         IF sh > 0 THEN BigShiftLeft(d, sh) ELSE d, 57, <<>>)
    IN RoundF([s |-> s, e |-> sh - 1,
               m |-> BigAdd(BigShiftLeft(qr.q, 1), IF qr.r = <<>> THEN <<>> ELSE <<1>>)])

\* The f64 nearest to s * digits * 10^e10, for digits without leading zero.
\* A value of 10^310 or more is an overflow and one below 10^-330 rounds
\* to zero whatever its digits are.
DecimalToF64(s, digits, e10) ==
    IF digits = <<>> THEN Zero(s)
    ELSE IF Len(digits) + e10 > 310 THEN Infinity(s)
    ELSE IF Len(digits) + e10 < 0 - 330 THEN Zero(s)
    ELSE IF e10 >= 0
         THEN RoundF([s |-> s, e |-> 0,
                      m |-> BigMul(DecimalValue(digits, 1, Len(digits)), BigPow10(e10))])
    ELSE DivNearest(s, DecimalValue(digits, 1, Len(digits)), BigPow10(0 - e10))

\* The digits of a decimal with fl of them behind the point, and its
\* exponent part if that is well formed.
Scale(s, digits, fl, ex) ==
    IF ex = <<>> THEN <<>> ELSE <<DecimalToF64(s, digits, ex[1] - fl)>>

\* An unsigned decimal: digits, optionally a point and digits (at least
\* one digit in all), optionally an exponent, and nothing else.
ParseNumber(s, body) ==
    LET il == LeadingDigits(body)
        r1 == Drop(body, il)
        dot == r1 # <<>> /\ Head(r1) = "."
        fl == IF dot THEN LeadingDigits(Tail(r1)) ELSE 0
        r2 == IF dot THEN Drop(r1, fl + 1) ELSE r1
        all == SubSeq(body, 1, il) \o (IF dot THEN SubSeq(r1, 2, fl + 1) ELSE <<>>)
    IN IF il + fl = 0 THEN <<>>
       ELSE Scale(s, Drop(all, LeadingZeros(all)), fl, ParseExponent(r2))

\* The special values, in any letter case: inf, infinity, nan.
ParseInfNan(s, body) ==
    LET l == LowerAll(body)
    IN IF l = <<"i", "n", "f">> \/ l = <<"i", "n", "f", "i", "n", "i", "t", "y">>
       THEN <<Infinity(s)>>
       ELSE IF l = <<"n", "a", "n">> THEN <<NaN>>
       ELSE <<>>

\* The first of two results that is one.
OrElse(first, second) == IF first # <<>> THEN first ELSE second

\* str::parse::<f64>().ok(): an optional sign, then a decimal or a special
\* value; anything else is an error (None).  A decimal gives the f64
\* nearest to the number it denotes, ties to even.
ParseF64(chars) ==
    LET signed == chars # <<>> /\ Head(chars) \in {"-", "+"}
        s == IF signed /\ Head(chars) = "-" THEN 0 - 1 ELSE 1
        body == IF signed THEN Tail(chars) ELSE chars
    IN OrElse(ParseNumber(s, body), ParseInfNan(s, body))

\* query.get(name).and_then(|s| s.parse().ok()).unwrap_or(0.0)
UnwrapOr(option, default) == IF option = <<>> THEN default ELSE option[1]
ParamOrZero(raw) == UnwrapOr(IF raw = <<>> THEN <<>> ELSE ParseF64(raw[1]), Zero(1))

\* Variant with the two coordinates the other way around.
PointNewSwapped(lat, lon) == <<lat, lon>>

\* Point::new(lon, lat): x is the longitude, y the latitude.
PointNew(lat, lon) == <<lon, lat>>

\* The query strings a request may carry for one parameter (None: absent).
Params == {<<>>, << <<"x">> >>, << <<"1">> >>, << <<"9">> >>,
           << <<"2", ".", "5">> >>, << <<"1", "e", "-", "1">> >>,
           << <<"-", "0", ".", "3">> >>,
           << <<"4", "2", "9", "4", "9", "6", "7", "2", "9", "6">> >>,
           << <<"1", "e", "4", "0", "0">> >>, << <<"1", "e", "-", "4", "0", "0">> >>,
           << <<"i", "n", "f">> >>, << <<"-", "i", "n", "f">> >>, << <<"N", "a", "N">> >>}

\* Those of them the requests carry where the datasets are larger.
ServeParams == {<< <<"1">> >>, << <<"9">> >>, << <<"2", ".", "5">> >>,
                << <<"-", "i", "n", "f">> >>, << <<"N", "a", "N">> >>}

\* Those of them the requests carry where the workers run concurrently.
ConcParams == {<<>>, << <<"1">> >>, << <<"9">> >>, << <<"-", "i", "n", "f">> >>}

\* Variant of the leaf iteration that starts from the other worker's position.
NextCandidateShared(w, h) ==
    NextCandidate(rtree, h.point, handlers[CHOOSE o \in Workers : o # w].pos)

\* The next leaf the handler's own iterator yields.
NextCandidateOf(w, h) == NextCandidate(rtree, h.point, h.pos)

\* Lines 55-58: actix-web hands the request, with its query string as a
\* map, to a free worker.
Receive(w, lat, lon) ==
    /\ pc = "serve"
    /\ handlers[w].stage = "idle"
    /\ handlers' = [handlers EXCEPT ![w] =
           [stage |-> "read", lat |-> lat, lon |-> lon, point |-> <<Zero(1), Zero(1)>>,
            pos |-> 0, status |-> 0, body |-> ValueNull]]
    /\ UNCHANGED <<dataset, pc, si, ri, poly_list, current_polygon, polygons, rtree>>

\* Lines 60-65: read the parameters, build the point, open the iterator.
ReadPoint(w) ==
    LET h == handlers[w]
    IN /\ h.stage = "read"
       /\ handlers' = [handlers EXCEPT ![w].stage = "loop",
                                       ![w].point = PointNew(ParamOrZero(h.lat),
                                                             ParamOrZero(h.lon))]
       /\ UNCHANGED <<dataset, pc, si, ri, poly_list, current_polygon, polygons, rtree>>

\* Lines 68-69: the next candidate does not contain the point.
CandidateMiss(w) ==
    LET h == handlers[w]
        j == NextCandidateOf(w, h)
    IN /\ h.stage = "loop"
       /\ j # 0
       /\ ~Contains(rtree[j].polygon, h.point)
       /\ handlers' = [handlers EXCEPT ![w].pos = j]
       /\ UNCHANGED <<dataset, pc, si, ri, poly_list, current_polygon, polygons, rtree>>

\* Variant that keeps iterating while a later candidate also contains the point.
CandidateMatchLast(w) ==
    LET h == handlers[w]
        j == NextCandidateOf(w, h)
        later == \E k \in (j + 1)..Len(rtree) :
                     contains_point(rtree[k], h.point) /\ Contains(rtree[k].polygon, h.point)
    IN /\ h.stage = "loop"
       /\ j # 0
       /\ Contains(rtree[j].polygon, h.point)
       /\ handlers' = IF later THEN [handlers EXCEPT ![w].pos = j]
                      ELSE [handlers EXCEPT ![w].pos = j, ![w].stage = "done",
                                            ![w].status = 200,
                                            ![w].body = rtree[j].properties]
       /\ UNCHANGED <<dataset, pc, si, ri, poly_list, current_polygon, polygons, rtree>>

\* Lines 69-71: the next candidate contains the point: 200 with its properties.
CandidateMatch(w) ==
    LET h == handlers[w]
        j == NextCandidateOf(w, h)
    IN /\ h.stage = "loop"
       /\ j # 0
       /\ Contains(rtree[j].polygon, h.point)
       /\ handlers' = [handlers EXCEPT ![w].pos = j, ![w].stage = "done",
                                       ![w].status = 200,
                                       ![w].body = rtree[j].properties]
       /\ UNCHANGED <<dataset, pc, si, ri, poly_list, current_polygon, polygons, rtree>>

\* Line 74: the candidates are exhausted: 200 with null.
RespondNull(w) ==
    LET h == handlers[w]
    IN /\ h.stage = "loop"
       /\ NextCandidateOf(w, h) = 0
       /\ handlers' = [handlers EXCEPT ![w].stage = "done", ![w].status = 200,
                                       ![w].body = ValueNull]
       /\ UNCHANGED <<dataset, pc, si, ri, poly_list, current_polygon, polygons, rtree>>

\* The response has been sent: the worker is free for the next request.
Complete(w) ==
    /\ handlers[w].stage = "done"
    /\ handlers' = [handlers EXCEPT ![w] = IdleHandler]
    /\ UNCHANGED <<dataset, pc, si, ri, poly_list, current_polygon, polygons, rtree>>

query_polygon(w, params) ==
    \/ \E lat \in params, lon \in params : Receive(w, lat, lon)
    \/ ReadPoint(w)
    \/ CandidateMiss(w)
    \/ CandidateMatch(w)
    \/ RespondNull(w)
    \/ Complete(w)

NextBuild ==
    \/ BulkLoadOk
    \/ BulkLoadPanic
    \/ BindOk
    \/ BindFail

(***************************************************************************)
(* Specifications.                                                         *)
(***************************************************************************)
Init == InitWith(LibraryDatasets(MaxShapes))

Next ==
    \/ NextLoad
    \/ NextBuild
    \/ query_polygon(1, ServeParams)

\* The whole program with one worker.
Spec == Init /\ [][Next]_vars

InitConc == InitWith(LibraryDatasets(MaxConcShapes))

NextConc ==
    \/ NextLoad
    \/ NextBuild
    \/ \E w \in Workers : query_polygon(w, ConcParams)

\* The whole program with the workers running handlers concurrently.
SpecConc == InitConc /\ [][NextConc]_vars

InitQuery == InitWith(LibraryDatasets(MaxQueryShapes))

NextQuery ==
    \/ NextLoad
    \/ NextBuild
    \/ query_polygon(1, Params)

\* The whole program with one worker and every query string.
SpecQuery == InitQuery /\ [][NextQuery]_vars

(***************************************************************************)
(* What the properties below are stated with.  None of this is the         *)
(* program: it says, without running the loops, what is expected.          *)
(***************************************************************************)
MinOf(S) == CHOOSE v \in S : \A u \in S : v <= u

OuterIdx(rings) == {i \in 1..Len(rings) : rings[i].tag = "Outer"}

\* The k-th outer ring, and the first outer ring after position i.
KthOuter(rings, k) ==
    CHOOSE i \in OuterIdx(rings) : Cardinality({j \in OuterIdx(rings) : j <= i}) = k
NextOuter(rings, i) == MinOf({j \in OuterIdx(rings) : j > i} \cup {Len(rings) + 1})

\* One polygon per outer ring, with the inner rings that follow it.
ExpectedPolys(rings) ==
    [k \in 1..Cardinality(OuterIdx(rings)) |->
        LET i == KthOuter(rings, k)
            n == NextOuter(rings, i)
        IN [exterior |-> CloseRing(rings[i].points),
            interiors |-> [j \in 1..(n - i - 1) |-> CloseRing(rings[i + j].points)]]]

PropsA == ValueObject([name |-> JsonString("A")])
PropsB == ValueObject([name |-> JsonString("B"), note |-> JsonLeafNull, pop |-> JsonLeafNull])
ExpectedProps(record) == IF record = RecordA THEN PropsA ELSE PropsB

\* The entries of the first n shape/record pairs of a file whose shapes are
\* all polygon shapes.
RECURSIVE ExpectedEntries(_, _)
ExpectedEntries(items, n) ==
    IF n = 0 THEN <<>>
    ELSE ExpectedEntries(items, n - 1) \o
         [k \in 1..Len(ExpectedPolys(items[n].rings)) |->
             IndexedPolygon(ExpectedPolys(items[n].rings)[k], ExpectedProps(items[n].record))]

\* The file without what ingestion recovers from: unsupported shapes and
\* inner rings that precede every outer ring of their shape.
RECURSIVE DropOrphans(_)
DropOrphans(rings) ==
    IF rings = <<>> \/ Head(rings).tag = "Outer" THEN rings ELSE DropOrphans(Tail(rings))

IsPolygonShape(item) == item.kind = "Polygon"

CleanItems(items) ==
    LET kept == SelectSeq(items, IsPolygonShape)
    IN [i \in 1..Len(kept) |-> PolygonShape(DropOrphans(kept[i].rings), kept[i].record)]

IsClean(items) ==
    \A i \in 1..Len(items) :
        /\ items[i].kind = "Polygon"
        /\ items[i].rings # <<>> => items[i].rings[1].tag = "Outer"

RECURSIVE TotalHoles(_)
TotalHoles(polys) ==
    IF polys = <<>> THEN 0 ELSE Len(Head(polys).interiors) + TotalHoles(Tail(polys))

AttachedInners(rings) ==
    {j \in 1..Len(rings) : rings[j].tag = "Inner" /\ \E i \in OuterIdx(rings) : i < j}

CountOuters(rings) == Cardinality(OuterIdx(rings))
CountAttached(rings) == Cardinality(AttachedInners(rings))

RECURSIVE SumOuters(_, _)
SumOuters(items, n) ==
    IF n = 0 THEN 0 ELSE SumOuters(items, n - 1) + CountOuters(items[n].rings)

RECURSIVE SumAttached(_, _)
SumAttached(items, n) ==
    IF n = 0 THEN 0 ELSE SumAttached(items, n - 1) + CountAttached(items[n].rings)

PolygonsOf(entries) == [i \in 1..Len(entries) |-> entries[i].polygon]

\* The file cannot be built into an index.
BuildFails(d) ==
    \/ ~d.exists
    \/ \E i \in 1..Len(d.items) : d.items[i].kind = "Error"
    \/ \E i \in 1..Len(d.items) : \E r \in 1..Len(d.items[i].rings) :
           /\ d.items[i].kind = "Polygon"
           /\ d.items[i].rings[r].tag = "Outer"
           /\ d.items[i].rings[r].points = <<>>

LoadFails(d) == ~d.exists \/ \E i \in 1..Len(d.items) : d.items[i].kind = "Error"

SameElements(s, t) ==
    /\ Len(s) = Len(t)
    /\ \A i \in 1..Len(s) :
           Cardinality({j \in 1..Len(s) : s[j] = s[i]}) =
           Cardinality({j \in 1..Len(t) : t[j] = s[i]})

\* The point lies in the inclusive bounding box of the ring's coordinates.
InBox(pts, p) ==
    /\ \E i \in 1..Len(pts) : LeF(Fin(pts[i][1]), p[1])
    /\ \E i \in 1..Len(pts) : LeF(p[1], Fin(pts[i][1]))
    /\ \E i \in 1..Len(pts) : LeF(Fin(pts[i][2]), p[2])
    /\ \E i \in 1..Len(pts) : LeF(p[2], Fin(pts[i][2]))

\* The point lies strictly inside the rectangle spanned by the ring
\* (for rings that are axis-parallel rectangles, as the holes here are).
StrictlyInBox(pts, p) ==
    /\ \E i \in 1..Len(pts) : LtF(Fin(pts[i][1]), p[1])
    /\ \E i \in 1..Len(pts) : LtF(p[1], Fin(pts[i][1]))
    /\ \E i \in 1..Len(pts) : LtF(Fin(pts[i][2]), p[2])
    /\ \E i \in 1..Len(pts) : LtF(p[2], Fin(pts[i][2]))

InHoleOf(entry, p) ==
    /\ StrictlyInBox(entry.polygon.exterior, p)
    /\ \E k \in 1..Len(entry.polygon.interiors) : StrictlyInBox(entry.polygon.interiors[k], p)

\* The f64 a request parameter stands for, as Rust's f64::from_str gives
\* it: 1e-1 is 3602879701896397 * 2^-55 (the f64 nearest to one tenth),
\* -0.3 is -5404319552844595 * 2^-54, 4294967296 is 2^32, 1e400 is beyond
\* the largest f64 (+inf) and 1e-400 below the smallest (0.0).
ExpectedParam(raw) ==
    CASE raw = <<>> -> [k |-> "fin", s |-> 1, m |-> <<>>, e |-> 0]
      [] raw = << <<"x">> >> -> [k |-> "fin", s |-> 1, m |-> <<>>, e |-> 0]
      [] raw = << <<"1">> >> -> [k |-> "fin", s |-> 1, m |-> <<1>>, e |-> 0]
      [] raw = << <<"9">> >> -> [k |-> "fin", s |-> 1, m |-> <<9>>, e |-> 0]
      [] raw = << <<"2", ".", "5">> >> -> [k |-> "fin", s |-> 1, m |-> <<5>>, e |-> 0 - 1]
      [] raw = << <<"1", "e", "-", "1">> >> ->
             [k |-> "fin", s |-> 1, m |-> <<19661, 6553, 13107, 102>>, e |-> 0 - 55]
      [] raw = << <<"-", "0", ".", "3">> >> ->
             [k |-> "fin", s |-> 0 - 1, m |-> <<13107, 26214, 19660, 153>>, e |-> 0 - 54]
      [] raw = << <<"4", "2", "9", "4", "9", "6", "7", "2", "9", "6">> >> ->
             [k |-> "fin", s |-> 1, m |-> <<1>>, e |-> 32]
      [] raw = << <<"1", "e", "-", "4", "0", "0">> >> -> [k |-> "fin", s |-> 1, m |-> <<>>, e |-> 0]
      [] raw = << <<"1", "e", "4", "0", "0">> >> -> [k |-> "inf", s |-> 1, m |-> <<>>, e |-> 0]
      [] raw = << <<"i", "n", "f">> >> -> [k |-> "inf", s |-> 1, m |-> <<>>, e |-> 0]
      [] raw = << <<"-", "i", "n", "f">> >> -> [k |-> "inf", s |-> 0 - 1, m |-> <<>>, e |-> 0]
      [] raw = << <<"N", "a", "N">> >> -> [k |-> "nan", s |-> 1, m |-> <<>>, e |-> 0]

\* Candidates of a point in tree order, and those that contain it.
CandidatesAt(tree, p) == {i \in 1..Len(tree) : InBox(tree[i].polygon.exterior, p)}
PassingAt(tree, p) == {i \in CandidatesAt(tree, p) : Contains(tree[i].polygon, p)}

\* The response of a query executed alone against the tree.
AloneBody(tree, lat, lon) ==
    LET p == <<ExpectedParam(lon), ExpectedParam(lat)>>
    IN IF PassingAt(tree, p) = {} THEN ValueNull
       ELSE tree[MinOf(PassingAt(tree, p))].properties

\* A step that leaves a built tree as it is.
TreeUntouched == pc \in {"bind", "serve"} => rtree' = rtree

\* Query points with finite coordinates: the integer grid around the rings,
\* the centres of some of its cells, and points with a coordinate that is
\* no multiple of a small power of two, or closer to zero than its square
\* can tell in f64.
Half(x) == [k |-> "fin", s |-> 1, m |-> <<x>>, e |-> 0 - 1]
Tenth == [k |-> "fin", s |-> 1, m |-> <<19661, 6553, 13107, 102>>, e |-> 0 - 55]
Tiny == [k |-> "fin", s |-> 0 - 1, m |-> <<1>>, e |-> 0 - 600]
GridPoints ==
    {<<Fin(x), Fin(y)>> : x \in (0 - 1)..11, y \in (0 - 1)..11}
        \cup {<<Half(x), Half(y)>> : x \in {1, 5, 7, 17}, y \in {1, 5, 7, 17}}
        \cup {<<Tenth, Tenth>>, <<Tenth, Fin(5)>>, <<Fin(1), Tenth>>, <<Tiny, Fin(1)>>,
              <<Fin(9), Tiny>>}

\* Query points with a coordinate that is not finite.
Specials == {Infinity(1), Infinity(0 - 1), NaN}
SpecialPoints ==
    {<<x, y>> : x \in Specials, y \in Specials \cup {Fin(3), Fin(9)}}
        \cup {<<x, y>> : x \in {Fin(3), Fin(9)}, y \in Specials}

(***************************************************************************)
(* Properties.                                                             *)
(***************************************************************************)

\* C1: the assembler emits one polygon per outer ring, in order; each has
\* that ring as exterior and, as holes, exactly the inner rings between it
\* and the next outer ring, in order.  It holds after every ring of the
\* loop and of the entries pushed for the shapes already iterated.
C1_RingAssembly ==
    /\ pc = "rings" =>
           poly_list \o current_polygon = ExpectedPolys(SubSeq(shape.rings, 1, ri - 1))
    /\ (pc = "loaded" /\ \A i \in 1..Len(dataset.items) : dataset.items[i].kind = "Polygon")
           => PolygonsOf(polygons) = PolygonsOf(ExpectedEntries(dataset.items, Len(dataset.items)))

C1_Witness ==
    /\ pc = "loaded"
    /\ dataset.items = <<PolygonShape(<<Outer(RingA), Inner(RingH1), Inner(RingH2), Outer(RingB)>>,
                                      RecordA)>>
    /\ PolygonsOf(polygons) =
           << [exterior |-> RingA, interiors |-> <<RingH1, RingH2>>],
              [exterior |-> Append(RingB, <<0, 0>>), interiors |-> <<>>] >>

\* C2: an inner ring that precedes every outer ring of its shape is
\* discarded: it starts no polygon and is nobody's hole, and the rings
\* after it are processed as usual.
C2_OrphanDiscard ==
    /\ pc = "rings" =>
           LET seen == SubSeq(shape.rings, 1, ri - 1)
               built == poly_list \o current_polygon
           IN /\ OuterIdx(seen) = {} => built = <<>>
              /\ Len(built) = CountOuters(seen)
              /\ TotalHoles(built) = CountAttached(seen)
    /\ (pc = "loaded" /\ dataset.items = <<PolygonShape(<<Inner(RingH1), Outer(RingA)>>, RecordA)>>)
           => polygons = <<IndexedPolygon([exterior |-> RingA, interiors |-> <<>>], PropsA)>>
    /\ (pc = "loaded" /\ \A i \in 1..Len(dataset.items) : dataset.items[i].kind = "Polygon")
           => /\ Len(polygons) = SumOuters(dataset.items, Len(dataset.items))
              /\ TotalHoles(PolygonsOf(polygons))
                     = SumAttached(dataset.items, Len(dataset.items))

C2_Witness ==
    /\ pc = "loaded"
    /\ dataset.items = <<PolygonShape(<<Inner(RingH1), Outer(RingA)>>, RecordA)>>
    /\ Len(polygons) = 1
    /\ polygons[1].polygon.interiors = <<>>

\* C3: the response is the attribute record of the first candidate, in the
\* order the tree yields them, that contains the point; candidates are
\* tested in that order and none after the match; the body is null exactly
\* when no candidate contains the point.
C3_FirstMatch ==
    \A w \in Workers :
        LET h == handlers[w]
            passing == PassingAt(rtree, h.point)
        IN /\ h.stage = "loop" => \A i \in passing : i > h.pos
           /\ h.stage = "done" =>
                  /\ passing = {} <=> h.body = ValueNull
                  /\ passing = {} => h.pos \notin passing
                  /\ passing # {} =>
                         /\ h.pos = MinOf(passing)
                         /\ h.body = rtree[h.pos].properties

C3_Witness ==
    \E w \in Workers :
        /\ handlers[w].stage = "done"
        /\ Cardinality(PassingAt(rtree, handlers[w].point)) >= 2
        /\ \E i, j \in PassingAt(rtree, handlers[w].point) :
               rtree[i].properties # rtree[j].properties
        /\ handlers[w].body = rtree[MinOf(PassingAt(rtree, handlers[w].point))].properties

\* C4: a point strictly inside a hole of an indexed polygon (and inside its
\* exterior) is never answered with that polygon; when that polygon is the
\* only one indexed the answer is null.
C4_HoleExcluded ==
    \A w \in Workers :
        LET h == handlers[w]
        IN h.stage = "done" =>
               /\ (h.body # ValueNull => ~InHoleOf(rtree[h.pos], h.point))
               /\ (Len(rtree) = 1 /\ InHoleOf(rtree[1], h.point)) => h.body = ValueNull

C4_Witness ==
    \E w \in Workers :
        /\ handlers[w].stage = "done"
        /\ Len(rtree) = 1
        /\ InHoleOf(rtree[1], handlers[w].point)
        /\ handlers[w].pos = 1
        /\ handlers[w].body = ValueNull

\* C5: the envelope filter is conservative for every query point an f64
\* pair can be, finite or not: every indexed polygon whose exact test
\* accepts the point is among the candidates locate_all_at_point returns
\* for it, the point lies within the inclusive bounding box of that
\* polygon's exterior ring, and every entry whose box holds the point is a
\* candidate.  Checked for every point of the grid and of the special
\* values when the tree has just been built, and for the point of every
\* query when its iterator is opened; the candidate a query is at is always
\* one of the located entries.
C5_FilterConservative ==
    /\ pc = "bind" =>
           \A p \in GridPoints \cup SpecialPoints :
               LET located == locate_all_at_point(rtree, p)
               IN \A i \in 1..Len(rtree) :
                      /\ Contains(rtree[i].polygon, p) =>
                             i \in located /\ InBox(rtree[i].polygon.exterior, p)
                      /\ InBox(rtree[i].polygon.exterior, p) => i \in located
    /\ \A w \in Workers :
           LET h == handlers[w]
               located == locate_all_at_point(rtree, h.point)
           IN /\ (h.stage = "loop" /\ h.pos = 0) =>
                     \A i \in 1..Len(rtree) :
                         /\ Contains(rtree[i].polygon, h.point) =>
                                i \in located /\ InBox(rtree[i].polygon.exterior, h.point)
                         /\ InBox(rtree[i].polygon.exterior, h.point) => i \in located
              /\ (h.stage \in {"loop", "done"} /\ h.pos # 0) => h.pos \in located

C5_Witness ==
    \E w \in Workers :
        /\ handlers[w].stage = "loop"
        /\ handlers[w].pos # 0
        /\ ~Contains(rtree[handlers[w].pos].polygon, handlers[w].point)
        /\ \E i \in locate_all_at_point(rtree, handlers[w].point) :
               Contains(rtree[i].polygon, handlers[w].point)

\* C6: a query is in progress only while the server runs, the server runs
\* only on the index built from the whole file, and a file whose build
\* fails never gets a server or a query.
C6_NoServiceBeforeBuild ==
    /\ (\E w \in Workers : handlers[w].stage # "idle") => pc = "serve"
    /\ pc \in {"bind", "serve"} =>
           /\ ~BuildFails(dataset)
           /\ si > Len(dataset.items)
           /\ polygons = ExpectedEntries(CleanItems(dataset.items),
                                         Len(CleanItems(dataset.items)))
           /\ SameElements(rtree, polygons)
    /\ BuildFails(dataset) =>
           /\ pc \in {"open", "iter", "rings", "loaded", "panicked"}
           /\ rtree = <<>>
           /\ \A w \in Workers : handlers[w] = IdleHandler
    /\ (pc = "loaded" /\ ~BuildFails(dataset)) => ENABLED BulkLoadOk

C6_Witness ==
    /\ pc = "panicked"
    /\ dataset.exists
    /\ si > Len(dataset.items)
    /\ \E i \in 1..Len(polygons) : polygons[i].polygon.exterior = <<>>
    /\ \E i \in 1..Len(polygons) : polygons[i].polygon.exterior # <<>>

\* C7: once built the tree never changes, and whatever the other worker
\* does, every response is the one the same lat and lon get when the query
\* runs alone against the built tree.
C7_IndependentQueries ==
    /\ [][TreeUntouched]_vars
    /\ [](\A w \in Workers :
              handlers[w].stage = "done" =>
                  /\ handlers[w].status = 200
                  /\ handlers[w].body = AloneBody(rtree, handlers[w].lat, handlers[w].lon))

C7_Witness ==
    /\ handlers[1].stage = "done"
    /\ handlers[1].body # ValueNull
    /\ handlers[2].stage = "loop"
    /\ handlers[2].pos # 0
    /\ handlers[2].pos # handlers[1].pos
    /\ handlers[2].point # handlers[1].point

\* C8: whatever lat and lon are (parsable, absent, unparsable) the handler
\* accepts the request, uses 0.0 for each absent or unparsable one and the
\* f64 the supplied string stands for for the other, always comes to a
\* response, and responds 200, with a null body when nothing matches.
C8_TotalQuery ==
    /\ (pc = "serve" /\ handlers[1].stage = "idle") =>
           \A lat \in Params, lon \in Params : ENABLED Receive(1, lat, lon)
    /\ \A w \in Workers :
           LET h == handlers[w]
           IN /\ h.stage \in {"loop", "done"} =>
                     h.point = <<ExpectedParam(h.lon), ExpectedParam(h.lat)>>
              /\ h.stage = "loop" =>
                     \/ NextCandidateOf(w, h) = 0
                     \/ (h.pos < NextCandidateOf(w, h) /\ NextCandidateOf(w, h) <= Len(rtree))
              /\ h.stage = "done" =>
                     /\ h.status = 200
                     /\ PassingAt(rtree, h.point) = {} => h.body = ValueNull
                     /\ h.body.t \in {"Null", "Object"}

C8_Witness ==
    \E w \in Workers :
        /\ handlers[w].stage = "done"
        /\ handlers[w].lat = << <<"x">> >>
        /\ handlers[w].lon = << <<"1", "e", "-", "1">> >>
        /\ handlers[w].point = <<Tenth, Zero(1)>>
        /\ handlers[w].status = 200
        /\ handlers[w].body = ValueNull
        /\ rtree # <<>>

\* C9: unsupported shapes and orphan inner rings never stop the load: unless
\* the file is missing or a pair cannot be read the load returns, and what
\* it returns is what the file without those shapes and rings yields.
C9_RecoverableIngestion ==
    /\ pc = "panicked" => LoadFails(dataset)
    /\ pc \in {"open", "iter", "rings"} => ENABLED NextLoad
    /\ pc = "loaded" =>
           /\ ~LoadFails(dataset)
           /\ IsClean(CleanItems(dataset.items))
           /\ polygons = ExpectedEntries(CleanItems(dataset.items),
                                         Len(CleanItems(dataset.items)))

C9_Witness ==
    /\ pc = "loaded"
    /\ dataset.items = <<PointShape, ShapeB>>
    /\ Len(polygons) = 2
    /\ polygons[1].polygon.interiors = <<>>

\* C10: every entry carries the attributes of the shape it was assembled
\* from, all parts of one shape carry the same ones, and a response is the
\* attribute record of a shape one of whose polygons contains the point.
C10_AttributesOfSource ==
    /\ pc \in {"iter", "loaded", "bind", "serve"} =>
           LET seen == CleanItems(SubSeq(dataset.items, 1, Min2(si - 1, Len(dataset.items))))
           IN [i \in 1..Len(polygons) |-> polygons[i].properties]
                  = [i \in 1..Len(ExpectedEntries(seen, Len(seen))) |->
                         ExpectedEntries(seen, Len(seen))[i].properties]
    /\ \A w \in Workers :
           (handlers[w].stage = "done" /\ handlers[w].body # ValueNull) =>
               \E i \in 1..Len(dataset.items) :
                   /\ dataset.items[i].kind = "Polygon"
                   /\ handlers[w].body = ExpectedProps(dataset.items[i].record)
                   /\ \E k \in 1..Len(ExpectedPolys(dataset.items[i].rings)) :
                          Contains(ExpectedPolys(dataset.items[i].rings)[k], handlers[w].point)

C10_Witness ==
    \E w \in Workers :
        /\ handlers[w].stage = "done"
        /\ handlers[w].point = <<Fin(9), Fin(9)>>
        /\ handlers[w].body = PropsB
        /\ \E i \in 1..Len(rtree) : rtree[i].properties = PropsA
        /\ Cardinality({i \in 1..Len(rtree) : rtree[i].properties = PropsB}) = 2

====
